---- MODULE Spec2Model ----
(***************************************************************************)
(* The session store of src/contexts/AuthContext.tsx (AuthProvider).       *)
(*                                                                         *)
(* State: the four React state cells (currentUser, userProfile, session,   *)
(* loading), the effect closure (mounted, the subscription), the remote    *)
(* collaborators (the provider's current session, the user_profiles        *)
(* table), and every asynchronous call that is in flight.  A handler with  *)
(* an await in it is one action per segment between suspension points.     *)
(***************************************************************************)
EXTENDS Integers, Sequences, FiniteSets, Bags, TLC

VARIABLES
    currentUser,    \* useState<User | null>
    userProfile,    \* useState<UserProfile | null>
    session,        \* useState<Session | null>
    loading,        \* useState(true)
    mounted,        \* let mounted = true (effect closure)
    subscribed,     \* the onAuthStateChange subscription is held
    authSession,    \* the provider's true current session
    user_profiles,  \* the remote table, one optional row per user id
    initPc,         \* position of initializeAuth
    events,         \* session-change events emitted, callback not yet run
    evLeft,         \* events the provider may still emit
    evSeq,          \* number of callbacks that have run
    fetches,        \* profile queries in flight
    calls,          \* bag of toggleFavorite / updateSubscription writes in flight
    callsLeft,      \* mutation calls the consumer may still make
    accounts,       \* ids of the identities registered at the provider
    authCalls,      \* bag of signup / login / logout calls in flight
    authLeft,       \* signup / login / logout calls the consumer may still make
    supplied,       \* per id, the profile input its row was inserted from
    raced,          \* a callback ran before the initial request resolved
    twice,          \* progress of "toggleFavorite(X) twice in a row"
    last            \* the step just taken: what it did and what it wrote

vars == <<currentUser, userProfile, session, loading, mounted, subscribed,
          authSession, user_profiles, initPc, events, evLeft, evSeq,
          fetches, calls, callsLeft, accounts, authCalls, authLeft,
          supplied, raced, twice, last>>

authVars == <<accounts, authCalls, authLeft, supplied>>

state == <<currentUser, userProfile, session, loading>>

(***************************************************************************)
(* Bounds of the exploration.                                              *)
(***************************************************************************)
MaxEvents == 2
MaxCalls == 3
FewCalls == 1
MaxAuthCalls == 2

(***************************************************************************)
(* Values.                                                                 *)
(***************************************************************************)
NULL == [null |-> TRUE]
NoError == "none"

UserIds == {"u1", "u2"}
ToolIds == {"t1", "t2"}

User(id) == [id |-> id]
SessionOf(id) == [user |-> User(id)]
Sessions == {NULL} \cup {SessionOf(id) : id \in UserIds}

\* A reading of the session that loses its user.
UserOfNone(s) == NULL

\* session?.user ?? null
UserOf(s) == IF s = NULL THEN NULL ELSE s.user

\* A column of a row is <<>> when it holds SQL NULL and <<v>> otherwise.
Absent == <<>>
Col(v) == <<v>>

Row(id, phone, interests, favorites, is_paid) ==
    [user_id |-> id, username |-> id, email |-> id, phone |-> phone,
     job |-> "j", interests |-> interests, favorites |-> favorites,
     is_paid |-> is_paid]

\* The rows the table may hold when the store is constructed.  The
\* favorites column is an unconstrained array: nothing in storage keeps it
\* free of duplicates.
InitialFavorites ==
    {Absent, Col(<<"t1", "t2">>), Col(<<"t1", "t1">>)}

\* u1 has signed up (its row exists), u2 has not.
Table(favorites) ==
    [id \in UserIds |->
        IF id = "u1" THEN Row(id, Absent, Absent, favorites, Absent)
        ELSE NULL]

InitialTables == {Table(f) : f \in InitialFavorites}

(***************************************************************************)
(* Pure parts of the handlers.                                             *)
(***************************************************************************)
RemoveAt(seq, i) == SubSeq(seq, 1, i - 1) \o SubSeq(seq, i + 1, Len(seq))

Includes(list, x) == \E i \in 1..Len(list) : list[i] = x

\* data.phone || ''
OrString(col, default) ==
    IF col = Absent THEN default
    ELSE IF col[1] = "" THEN default ELSE col[1]

\* data.interests || [],  data.favorites || []
OrList(col, default) == IF col = Absent THEN default ELSE col[1]

\* data.is_paid || false
OrBoolean(col, default) ==
    IF col = Absent THEN default
    ELSE IF col[1] = FALSE THEN default ELSE col[1]

\* The object literal handed to setUserProfile when the query has a row.
MapProfile(data) ==
    [username |-> data.username,
     email |-> data.email,
     phone |-> OrString(data.phone, ""),
     job |-> data.job,
     interests |-> OrList(data.interests, <<>>),
     favorites |-> OrList(data.favorites, <<>>),
     isPaid |-> OrBoolean(data.is_paid, FALSE)]

\* What the awaited query of fetchUserProfile gives back.  "reply": the
\* table answered (.single() turns "no row" into error PGRST116); "error":
\* any other query error; "throw": the await rejects; "empty": neither an
\* error nor a row.
FetchOutcomes == {"reply", "error", "throw", "empty"}

QueryResult(outcome, userId) ==
    CASE outcome = "reply" ->
            IF user_profiles[userId] = NULL
            THEN [thrown |-> FALSE, error |-> "PGRST116", data |-> NULL]
            ELSE [thrown |-> FALSE, error |-> NoError,
                  data |-> user_profiles[userId]]
      [] outcome = "error" ->
            [thrown |-> FALSE, error |-> "OTHER", data |-> NULL]
      [] outcome = "throw" ->
            [thrown |-> TRUE, error |-> NoError, data |-> NULL]
      [] OTHER ->
            [thrown |-> FALSE, error |-> NoError, data |-> NULL]

\* A fetchUserProfile that caches a blank profile when it has no row.
ProfileFromQueryBlank(r) ==
    IF ~r.thrown /\ r.error = NoError /\ r.data # NULL
    THEN MapProfile(r.data)
    ELSE [username |-> "", email |-> "", phone |-> "", job |-> "",
          interests |-> <<>>, favorites |-> <<>>, isPaid |-> FALSE]

\* The value fetchUserProfile hands to setUserProfile, on each of its paths.
ProfileFromQuery(r) ==
    IF r.thrown THEN NULL
    ELSE IF r.error # NoError THEN NULL
    ELSE IF r.data # NULL THEN MapProfile(r.data)
    ELSE NULL

\* A guard that forgets the profile: if (!currentUser) return;
NoOpGuardIdentityOnly(user, profile) == user = NULL

\* if (!currentUser || !userProfile) return;
NoOpGuard(user, profile) == user = NULL \/ profile = NULL

\* userProfile.favorites || []
FavoritesOf(profile) ==
    IF "favorites" \in DOMAIN profile THEN profile.favorites ELSE <<>>

\* A toggle that adds in front: [toolId, ...favorites]
NewFavoritesPrepend(favorites, toolId) ==
    IF Includes(favorites, toolId)
    THEN SelectSeq(favorites, LAMBDA id : id # toolId)
    ELSE <<toolId>> \o favorites

\* A toggle that removes one occurrence only (splice at indexOf).
NewFavoritesRemoveFirst(favorites, toolId) ==
    IF Includes(favorites, toolId)
    THEN LET i == CHOOSE k \in 1..Len(favorites) :
                      /\ favorites[k] = toolId
                      /\ \A j \in 1..(k - 1) : favorites[j] # toolId
         IN  RemoveAt(favorites, i)
    ELSE Append(favorites, toolId)

\* A toggle that never removes: [...favorites, toolId]
NewFavoritesAlwaysAppend(favorites, toolId) == Append(favorites, toolId)

\* favorites.includes(toolId) ? favorites.filter(id => id !== toolId)
\*                            : [...favorites, toolId]
NewFavorites(favorites, toolId) ==
    IF Includes(favorites, toolId)
    THEN SelectSeq(favorites, LAMBDA id : id # toolId)
    ELSE Append(favorites, toolId)

\* The profile inputs a consumer hands to signup: phone is optional.
ProfileInputs ==
    {[username |-> "a", email |-> "e", phone |-> Absent, job |-> "j",
      interests |-> <<>>],
     [username |-> "a", email |-> "e", phone |-> Col("555"), job |-> "j",
      interests |-> <<"x">>]}

\* A row that forgets the phone column.
SignupRowNoPhone(id, profile) ==
    [user_id |-> id, username |-> profile.username, email |-> profile.email,
     phone |-> Absent, job |-> profile.job,
     interests |-> Col(profile.interests), favorites |-> Col(<<>>),
     is_paid |-> Col(FALSE)]

\* The object literal handed to .insert() by signup.
SignupRow(id, profile) ==
    [user_id |-> id, username |-> profile.username, email |-> profile.email,
     phone |-> profile.phone, job |-> profile.job,
     interests |-> Col(profile.interests), favorites |-> Col(<<>>),
     is_paid |-> Col(FALSE)]

\* .insert(row): adds the row unless its user already has one.
InsertRow(table, id, row) ==
    IF table[id] = NULL THEN [table EXCEPT ![id] = row] ELSE table

\* A signup that does not look at the errors of its remote calls.
SignupFailedIgnored(error) == FALSE

\* if (error) { ...; throw error; }  and  if (profileError) { ...; throw }
SignupFailed(error) == error # NoError

\* What supabase.auth.signUp gives back for an id: an error, neither an
\* error nor a user, a new user, or a new user who is signed in at once.
SignUpResults(id, registered) ==
    {[error |-> "failed", user |-> NULL, signedIn |-> FALSE],
     [error |-> NoError, user |-> NULL, signedIn |-> FALSE]}
    \cup (IF id \in registered THEN {}
          ELSE {[error |-> NoError, user |-> User(id), signedIn |-> b] :
                    b \in BOOLEAN})

\* The provider tells a live subscription about a session it has set.
Notify(queue, s, listening) == IF listening THEN Append(queue, s) ELSE queue

\* An initializeAuth that does not look at the error of getSession.
InitFailedIgnored(error) == FALSE

\* if (error) { ...; if (mounted) setLoading(false); return; }
InitFailed(error) == error # NoError

\* data.session as getSession resolves it: none when it reports an error.
ResolvedSession(error, current) == IF error # NoError THEN NULL ELSE current

\* A branch that raises the flag again: setLoading(true) before the fetch.
LoadingOnFetchStartRaised(flag) == TRUE

\* if (session?.user) { await fetchUserProfile(...) }: loading is not
\* written on the way into the fetch.
LoadingOnFetchStart(flag) == flag

\* A fetchUserProfile whose setLoading(false) sits at the end of the try
\* block and not in a finally.
LoadingAfterFetchNoFinally(r, flag) == IF r.thrown THEN flag ELSE FALSE

\* finally { setLoading(false); }
LoadingAfterFetch(r, flag) == FALSE

\* A handler that does not look at the error of the update.
WriteFailedIgnored(error) == FALSE

\* if (error) { ...; throw error; }
WriteFailed(error) == error # NoError

\* { ...userProfile, favorites: newFavorites }
WithFavorites(profile, newFavorites) ==
    IF profile = NULL THEN [favorites |-> newFavorites]
    ELSE [profile EXCEPT !.favorites = newFavorites]

\* { ...userProfile, isPaid }
WithIsPaid(profile, isPaid) ==
    IF profile = NULL THEN [isPaid |-> isPaid]
    ELSE [profile EXCEPT !.isPaid = isPaid]

\* .update(patch).eq('user_id', id): rewrites the matching row, if any.
UpdateRow(table, id, column, value) ==
    IF table[id] = NULL THEN table
    ELSE [table EXCEPT ![id] =
            IF column = "favorites"
            THEN [table[id] EXCEPT !.favorites = Col(value)]
            ELSE [table[id] EXCEPT !.is_paid = Col(value)]]

(***************************************************************************)
(* The record of the step just taken.                                      *)
(***************************************************************************)
Step(op, outcome, writes) ==
    [op |-> op, outcome |-> outcome, writes |-> writes,
     response |-> NoError, thrown |-> NoError, call |-> NULL]

CallStep(op, outcome, writes, response, thrown, call) ==
    [op |-> op, outcome |-> outcome, writes |-> writes,
     response |-> response, thrown |-> thrown, call |-> call]

Idle == [stage |-> 0, toolId |-> "", before |-> <<>>]

(***************************************************************************)
(* Construction: the state cells hold their useState defaults, the effect  *)
(* has started initializeAuth (suspended in getSession) and subscribed.    *)
(***************************************************************************)
Construct ==
    /\ currentUser = NULL
    /\ userProfile = NULL
    /\ session = NULL
    /\ loading = TRUE
    /\ mounted = TRUE
    /\ subscribed = TRUE
    /\ initPc = "getSession"
    /\ events = <<>>
    /\ evSeq = 0
    /\ fetches = {}
    /\ calls = EmptyBag
    /\ accounts = {"u1"}
    /\ authCalls = EmptyBag
    /\ supplied = [id \in UserIds |-> NULL]
    /\ raced = FALSE
    /\ twice = Idle
    /\ last = Step("construct", "ok", {})

(***************************************************************************)
(* initializeAuth, from the resolution of getSession to its next await.    *)
(***************************************************************************)
GetSessionResolve(error) ==
    /\ initPc = "getSession"
    /\ LET s == ResolvedSession(error, authSession) IN
       IF InitFailed(error)
       THEN /\ loading' = (IF mounted THEN FALSE ELSE loading)
            /\ initPc' = "done"
            /\ last' = CallStep("initializeAuth", "error",
                                IF mounted THEN {"loading"} ELSE {},
                                error, NoError, NULL)
            /\ UNCHANGED <<currentUser, session, fetches>>
       ELSE IF ~mounted
       THEN /\ initPc' = "done"
            /\ last' = CallStep("initializeAuth", "unmounted", {}, error,
                                NoError, NULL)
            /\ UNCHANGED <<currentUser, session, loading, fetches>>
       ELSE /\ session' = s
            /\ currentUser' = UserOf(s)
            /\ IF UserOf(s) # NULL
               THEN /\ fetches' = fetches \cup
                          {[origin |-> 0, userId |-> s.user.id]}
                    /\ initPc' = "fetchUserProfile"
                    /\ loading' = LoadingOnFetchStart(loading)
                    /\ last' = CallStep("initializeAuth", "fetch",
                                        {"session", "currentUser"}, error,
                                        NoError, NULL)
               ELSE /\ loading' = FALSE
                    /\ initPc' = "done"
                    /\ last' = CallStep("initializeAuth", "nouser",
                                    {"session", "currentUser", "loading"},
                                    error, NoError, NULL)
                    /\ UNCHANGED fetches
    /\ twice' = Idle
    /\ UNCHANGED <<userProfile, mounted, subscribed, authSession,
                   user_profiles, events, evLeft, evSeq, calls, callsLeft,
                   raced>>
    /\ UNCHANGED authVars

(***************************************************************************)
(* The provider changes its session and emits a session-change event to    *)
(* the subscriber; it emits the next one after the callback for this one   *)
(* has been invoked.                                                       *)
(***************************************************************************)
EmitSessionChange(s) ==
    /\ subscribed
    /\ events = <<>>
    /\ evLeft > 0
    /\ authSession' = s
    /\ events' = Append(events, s)
    /\ evLeft' = evLeft - 1
    /\ twice' = Idle
    /\ last' = Step("emit", "ok", {})
    /\ UNCHANGED <<currentUser, userProfile, session, loading, mounted,
                   subscribed, user_profiles, initPc, evSeq, fetches, calls,
                   callsLeft, raced>>
    /\ UNCHANGED authVars

(***************************************************************************)
(* The onAuthStateChange callback, up to its await.                        *)
(***************************************************************************)
OnAuthStateChange ==
    /\ events # <<>>
    /\ events' = Tail(events)
    /\ LET s == Head(events) IN
       IF ~mounted
       THEN /\ last' = Step("onAuthStateChange", "unmounted", {})
            /\ UNCHANGED <<currentUser, userProfile, session, loading,
                           fetches, evSeq, raced>>
       ELSE /\ session' = s
            /\ currentUser' = UserOf(s)
            /\ evSeq' = evSeq + 1
            /\ raced' = (raced \/ initPc = "getSession")
            /\ IF UserOf(s) # NULL
               THEN /\ fetches' = fetches \cup
                          {[origin |-> evSeq + 1, userId |-> s.user.id]}
                    /\ loading' = LoadingOnFetchStart(loading)
                    /\ last' = Step("onAuthStateChange", "fetch",
                                    {"session", "currentUser"})
                    /\ UNCHANGED userProfile
               ELSE /\ userProfile' = NULL
                    /\ loading' = FALSE
                    /\ last' = Step("onAuthStateChange", "nouser",
                             {"session", "currentUser", "userProfile",
                              "loading"})
                    /\ UNCHANGED fetches
    /\ twice' = Idle
    /\ UNCHANGED <<mounted, subscribed, authSession, user_profiles, initPc,
                   evLeft, calls, callsLeft>>
    /\ UNCHANGED authVars

(***************************************************************************)
(* fetchUserProfile, from the resolution of its query to its end; the      *)
(* caller (initializeAuth or the callback) ends with it.                   *)
(***************************************************************************)
FetchResolve(f, outcome) ==
    /\ f \in fetches
    /\ LET r == QueryResult(outcome, f.userId) IN
       /\ userProfile' = ProfileFromQuery(r)
       /\ loading' = LoadingAfterFetch(r, loading)
       /\ last' = CallStep("fetchUserProfile",
                           IF r.thrown THEN "throw"
                           ELSE IF r.error # NoError THEN r.error
                           ELSE IF r.data # NULL THEN "row" ELSE "empty",
                           {"userProfile", "loading"}, NoError, NoError, NULL)
    /\ fetches' = fetches \ {f}
    /\ initPc' = (IF f.origin = 0 THEN "done" ELSE initPc)
    /\ twice' = Idle
    /\ UNCHANGED <<currentUser, session, mounted, subscribed, authSession,
                   user_profiles, events, evLeft, evSeq, calls, callsLeft,
                   raced>>
    /\ UNCHANGED authVars

(***************************************************************************)
(* The effect's cleanup.                                                   *)
(***************************************************************************)
Cleanup ==
    /\ mounted
    /\ mounted' = FALSE
    /\ subscribed' = FALSE
    /\ twice' = Idle
    /\ last' = Step("cleanup", "ok", {})
    /\ UNCHANGED <<currentUser, userProfile, session, loading, authSession,
                   user_profiles, initPc, events, evLeft, evSeq, fetches,
                   calls, callsLeft, raced>>
    /\ UNCHANGED authVars

(***************************************************************************)
(* toggleFavorite(toolId), up to its await.  The function closes over the  *)
(* currentUser and userProfile of the render it was created in; a consumer *)
(* calls the function of the latest render, so the call record keeps the   *)
(* two cells as they are when the call is made, and the continuation uses  *)
(* the record, not the cells.                                              *)
(***************************************************************************)
ToggleFavoriteCall(toolId) ==
    /\ mounted
    /\ callsLeft > 0
    /\ callsLeft' = callsLeft - 1
    /\ IF NoOpGuard(currentUser, userProfile)
       THEN /\ last' = Step("toggleFavorite", "noop", {})
            /\ twice' = Idle
            /\ UNCHANGED calls
       ELSE IF currentUser = NULL \/ userProfile = NULL
       THEN \* dereferencing null: the call rejects with a TypeError
            /\ last' = CallStep("toggleFavorite", "throw", {}, NoError,
                                "TypeError", NULL)
            /\ twice' = Idle
            /\ UNCHANGED calls
       ELSE LET c == [op |-> "toggleFavorite", arg |-> toolId,
                      user |-> currentUser, profile |-> userProfile,
                      newFavorites |->
                          NewFavorites(FavoritesOf(userProfile), toolId)]
            IN  /\ calls' = calls (+) SetToBag({c})
                /\ last' = CallStep("toggleFavorite", "call", {}, NoError,
                                    NoError, c)
                /\ twice' =
                     IF twice.stage = 2 /\ twice.toolId = toolId
                     THEN [twice EXCEPT !.stage = 3]
                     ELSE IF calls = EmptyBag
                     THEN [stage |-> 1, toolId |-> toolId,
                           before |-> FavoritesOf(userProfile)]
                     ELSE Idle
    /\ UNCHANGED <<currentUser, userProfile, session, loading, mounted,
                   subscribed, authSession, user_profiles, initPc, events,
                   evLeft, evSeq, fetches, raced>>
    /\ UNCHANGED authVars

(***************************************************************************)
(* toggleFavorite, from the resolution of the remote update to its end.    *)
(***************************************************************************)
ToggleFavoriteResolve(c, error) ==
    /\ BagIn(c, calls)
    /\ c.op = "toggleFavorite"
    /\ calls' = calls (-) SetToBag({c})
    /\ user_profiles' =
         IF error # NoError THEN user_profiles
         ELSE UpdateRow(user_profiles, c.user.id, "favorites",
                        c.newFavorites)
    /\ IF WriteFailed(error)
       THEN /\ last' = CallStep("toggleFavorite", "throw", {}, error, error,
                                c)
            /\ twice' = Idle
            /\ UNCHANGED userProfile
       ELSE /\ userProfile' =
                 WithFavorites(c.profile, c.newFavorites)
            /\ last' = CallStep("toggleFavorite", "ok", {"userProfile"},
                                error, NoError, c)
            /\ twice' = IF twice.stage \in {1, 3}
                        THEN [twice EXCEPT !.stage = twice.stage + 1]
                        ELSE Idle
    /\ UNCHANGED <<currentUser, session, loading, mounted, subscribed,
                   authSession, initPc, events, evLeft, evSeq, fetches,
                   callsLeft, raced>>
    /\ UNCHANGED authVars

(***************************************************************************)
(* updateSubscription(isPaid), up to its await.                            *)
(***************************************************************************)
UpdateSubscriptionCall(isPaid) ==
    /\ mounted
    /\ callsLeft > 0
    /\ callsLeft' = callsLeft - 1
    /\ IF NoOpGuard(currentUser, userProfile)
       THEN /\ last' = Step("updateSubscription", "noop", {})
            /\ UNCHANGED calls
       ELSE IF currentUser = NULL
       THEN \* dereferencing null: the call rejects with a TypeError
            /\ last' = CallStep("updateSubscription", "throw", {}, NoError,
                                "TypeError", NULL)
            /\ UNCHANGED calls
       ELSE LET c == [op |-> "updateSubscription", arg |-> isPaid,
                      user |-> currentUser, profile |-> userProfile]
            IN  /\ calls' = calls (+) SetToBag({c})
                /\ last' = CallStep("updateSubscription", "call", {},
                                    NoError, NoError, c)
    /\ twice' = Idle
    /\ UNCHANGED <<currentUser, userProfile, session, loading, mounted,
                   subscribed, authSession, user_profiles, initPc, events,
                   evLeft, evSeq, fetches, raced>>
    /\ UNCHANGED authVars

(***************************************************************************)
(* updateSubscription, from the resolution of the remote update to its     *)
(* end.                                                                    *)
(***************************************************************************)
UpdateSubscriptionResolve(c, error) ==
    /\ BagIn(c, calls)
    /\ c.op = "updateSubscription"
    /\ calls' = calls (-) SetToBag({c})
    /\ user_profiles' =
         IF error # NoError THEN user_profiles
         ELSE UpdateRow(user_profiles, c.user.id, "is_paid",
                        c.arg)
    /\ IF WriteFailed(error)
       THEN /\ last' = CallStep("updateSubscription", "throw", {}, error,
                                error, c)
            /\ UNCHANGED userProfile
       ELSE /\ userProfile' = WithIsPaid(c.profile, c.arg)
            /\ last' = CallStep("updateSubscription", "ok", {"userProfile"},
                                error, NoError, c)
    /\ twice' = Idle
    /\ UNCHANGED <<currentUser, session, loading, mounted, subscribed,
                   authSession, initPc, events, evLeft, evSeq, fetches,
                   callsLeft, raced>>
    /\ UNCHANGED authVars

(***************************************************************************)
(* signup(email, password, profile), up to its first await.                *)
(***************************************************************************)
SignupCall(id, profile) ==
    /\ mounted
    /\ authLeft > 0
    /\ authLeft' = authLeft - 1
    /\ LET c == [op |-> "signup", pc |-> "signUp", id |-> id,
                 profile |-> profile]
       IN  /\ authCalls' = authCalls (+) SetToBag({c})
           /\ last' = CallStep("signup", "call", {}, NoError, NoError, c)
    /\ twice' = Idle
    /\ UNCHANGED <<state, mounted, subscribed, authSession, user_profiles,
                   initPc, events, evLeft, evSeq, fetches, calls, callsLeft,
                   accounts, supplied, raced>>

(***************************************************************************)
(* signup, from the resolution of auth.signUp to the insert it awaits      *)
(* next, or to its end.                                                    *)
(***************************************************************************)
SignUpResolve(c, r) ==
    /\ BagIn(c, authCalls)
    /\ c.op = "signup"
    /\ c.pc = "signUp"
    /\ accounts' = IF r.user # NULL THEN accounts \cup {c.id} ELSE accounts
    /\ authSession' = IF r.signedIn THEN SessionOf(c.id) ELSE authSession
    /\ events' = IF r.signedIn
                 THEN Notify(events, SessionOf(c.id), subscribed)
                 ELSE events
    /\ IF SignupFailed(r.error)
       THEN /\ authCalls' = authCalls (-) SetToBag({c})
            /\ last' = CallStep("signup", "throw", {}, r.error, r.error, c)
       ELSE IF r.user # NULL
       THEN /\ authCalls' = (authCalls (-) SetToBag({c}))
                               (+) SetToBag({[c EXCEPT !.pc = "insert"]})
            /\ last' = CallStep("signup", "insert", {}, r.error, NoError, c)
       ELSE /\ authCalls' = authCalls (-) SetToBag({c})
            /\ last' = CallStep("signup", "ok", {}, r.error, NoError, c)
    /\ twice' = Idle
    /\ UNCHANGED <<state, mounted, subscribed, user_profiles, initPc, evLeft,
                   evSeq, fetches, calls, callsLeft, authLeft, supplied,
                   raced>>

(***************************************************************************)
(* signup, from the resolution of the insert to its end.                   *)
(***************************************************************************)
InsertResolve(c, error) ==
    /\ BagIn(c, authCalls)
    /\ c.op = "signup"
    /\ c.pc = "insert"
    /\ authCalls' = authCalls (-) SetToBag({c})
    /\ user_profiles' =
         IF error # NoError THEN user_profiles
         ELSE InsertRow(user_profiles, c.id, SignupRow(c.id, c.profile))
    /\ supplied' =
         IF error # NoError \/ user_profiles[c.id] # NULL THEN supplied
         ELSE [supplied EXCEPT ![c.id] = c.profile]
    /\ IF SignupFailed(error)
       THEN last' = CallStep("signup", "throw", {}, error, error, c)
       ELSE last' = CallStep("signup", "ok", {}, error, NoError, c)
    /\ twice' = Idle
    /\ UNCHANGED <<state, mounted, subscribed, authSession, initPc, events,
                   evLeft, evSeq, fetches, calls, callsLeft, accounts,
                   authLeft, raced>>

(***************************************************************************)
(* login(email, password), up to its await.                                *)
(***************************************************************************)
LoginCall(id) ==
    /\ mounted
    /\ authLeft > 0
    /\ authLeft' = authLeft - 1
    /\ LET c == [op |-> "login", pc |-> "signIn", id |-> id,
                 profile |-> NULL]
       IN  /\ authCalls' = authCalls (+) SetToBag({c})
           /\ last' = CallStep("login", "call", {}, NoError, NoError, c)
    /\ twice' = Idle
    /\ UNCHANGED <<state, mounted, subscribed, authSession, user_profiles,
                   initPc, events, evLeft, evSeq, fetches, calls, callsLeft,
                   accounts, supplied, raced>>

\* What the resolution of signInWithPassword does outside the state cells:
\* a success needs a registered identity, signs it in and is announced.
LoginRemote(c, error) ==
    /\ BagIn(c, authCalls)
    /\ c.op = "login"
    /\ error = NoError => c.id \in accounts
    /\ authCalls' = authCalls (-) SetToBag({c})
    /\ authSession' = IF error = NoError THEN SessionOf(c.id)
                      ELSE authSession
    /\ events' = IF error = NoError
                 THEN Notify(events, SessionOf(c.id), subscribed)
                 ELSE events
    /\ last' = IF error # NoError
               THEN CallStep("login", "throw", {}, error, error, c)
               ELSE CallStep("login", "ok", {}, error, NoError, c)
    /\ twice' = Idle
    /\ UNCHANGED <<currentUser, userProfile, loading, mounted, subscribed,
                   user_profiles, initPc, evLeft, evSeq, fetches, calls,
                   callsLeft, accounts, authLeft, supplied, raced>>

\* A login that adopts the session itself: setSession(data.session).
LoginResolveAdopting(c, error) ==
    /\ LoginRemote(c, error)
    /\ session' = IF error = NoError THEN SessionOf(c.id) ELSE session

(***************************************************************************)
(* login, from the resolution of signInWithPassword to its end.            *)
(***************************************************************************)
LoginResolve(c, error) ==
    /\ LoginRemote(c, error)
    /\ UNCHANGED session

(***************************************************************************)
(* logout(), up to its await.                                              *)
(***************************************************************************)
LogoutCall ==
    /\ mounted
    /\ authLeft > 0
    /\ authLeft' = authLeft - 1
    /\ LET c == [op |-> "logout", pc |-> "signOut", id |-> "",
                 profile |-> NULL]
       IN  /\ authCalls' = authCalls (+) SetToBag({c})
           /\ last' = CallStep("logout", "call", {}, NoError, NoError, c)
    /\ twice' = Idle
    /\ UNCHANGED <<state, mounted, subscribed, authSession, user_profiles,
                   initPc, events, evLeft, evSeq, fetches, calls, callsLeft,
                   accounts, supplied, raced>>

(***************************************************************************)
(* logout, from the resolution of signOut to its end.                      *)
(***************************************************************************)
LogoutResolve(c, error) ==
    /\ BagIn(c, authCalls)
    /\ c.op = "logout"
    /\ authCalls' = authCalls (-) SetToBag({c})
    /\ authSession' = IF error = NoError THEN NULL ELSE authSession
    /\ events' = IF error = NoError THEN Notify(events, NULL, subscribed)
                 ELSE events
    /\ last' = IF error # NoError
               THEN CallStep("logout", "throw", {}, error, error, c)
               ELSE CallStep("logout", "ok", {}, error, NoError, c)
    /\ twice' = Idle
    /\ UNCHANGED <<state, mounted, subscribed, user_profiles, initPc, evLeft,
                   evSeq, fetches, calls, callsLeft, accounts, authLeft,
                   supplied, raced>>

(***************************************************************************)
(* The store.                                                              *)
(***************************************************************************)
Errors == {NoError, "failed"}

Next ==
    \/ \E error \in Errors : GetSessionResolve(error)
    \/ \E s \in Sessions : EmitSessionChange(s)
    \/ OnAuthStateChange
    \/ \E f \in fetches, outcome \in FetchOutcomes : FetchResolve(f, outcome)
    \/ Cleanup
    \/ \E toolId \in ToolIds : ToggleFavoriteCall(toolId)
    \/ \E c \in BagToSet(calls), error \in Errors :
          ToggleFavoriteResolve(c, error)
    \/ \E isPaid \in BOOLEAN : UpdateSubscriptionCall(isPaid)
    \/ \E c \in BagToSet(calls), error \in Errors :
          UpdateSubscriptionResolve(c, error)

\* The store under many session changes and few consumer calls: any
\* session at the provider, u1's row as signup left it but for a favorite.
Init ==
    /\ Construct
    /\ authSession \in Sessions
    /\ user_profiles = Table(Col(<<"t1">>))
    /\ evLeft = MaxEvents
    /\ callsLeft = FewCalls
    /\ authLeft = 0

Spec == Init /\ [][Next]_vars

\* The store under many consumer calls while the provider's session stays
\* what it is: u1 is signed in, its row holds any of the initial lists.
InitCalls ==
    /\ Construct
    /\ authSession = SessionOf("u1")
    /\ user_profiles \in InitialTables
    /\ evLeft = 0
    /\ callsLeft = MaxCalls
    /\ authLeft = 0

NextCalls ==
    \/ \E error \in Errors : GetSessionResolve(error)
    \/ \E f \in fetches, outcome \in FetchOutcomes : FetchResolve(f, outcome)
    \/ Cleanup
    \/ \E toolId \in ToolIds : ToggleFavoriteCall(toolId)
    \/ \E c \in BagToSet(calls), error \in Errors :
          ToggleFavoriteResolve(c, error)
    \/ \E isPaid \in BOOLEAN : UpdateSubscriptionCall(isPaid)
    \/ \E c \in BagToSet(calls), error \in Errors :
          UpdateSubscriptionResolve(c, error)

SpecCalls == InitCalls /\ [][NextCalls]_vars

\* The store with no consumer calls, every request it has in flight being
\* answered in the end: getSession resolves, an emitted event reaches the
\* callback, a profile query resolves.
InitLive ==
    /\ Construct
    /\ authSession \in Sessions
    /\ user_profiles = Table(Col(<<"t1">>))
    /\ evLeft = MaxEvents
    /\ callsLeft = 0
    /\ authLeft = 0

NextLive ==
    \/ \E error \in Errors : GetSessionResolve(error)
    \/ \E s \in Sessions : EmitSessionChange(s)
    \/ OnAuthStateChange
    \/ \E f \in fetches, outcome \in FetchOutcomes : FetchResolve(f, outcome)
    \/ Cleanup

\* The same store with nothing said about what is answered.
SpecEvents == InitLive /\ [][NextLive]_vars

SpecLive ==
    /\ InitLive
    /\ [][NextLive]_vars
    /\ WF_vars(\E error \in Errors : GetSessionResolve(error))
    /\ WF_vars(OnAuthStateChange)
    /\ WF_vars(\E f \in fetches, outcome \in FetchOutcomes :
                  FetchResolve(f, outcome))

\* The store under signup, login and logout: u1 is registered and has its
\* row, u2 is not; nobody or u1 is signed in; the session changes only by
\* what these calls do at the provider.
InitAuth ==
    /\ Construct
    /\ authSession \in {NULL, SessionOf("u1")}
    /\ user_profiles = Table(Col(<<"t1">>))
    /\ evLeft = 0
    /\ callsLeft = 0
    /\ authLeft = MaxAuthCalls

NextAuth ==
    \/ \E error \in Errors : GetSessionResolve(error)
    \/ OnAuthStateChange
    \/ \E f \in fetches, outcome \in FetchOutcomes : FetchResolve(f, outcome)
    \/ Cleanup
    \/ \E id \in UserIds, profile \in ProfileInputs : SignupCall(id, profile)
    \/ \E c \in BagToSet(authCalls) :
          \E r \in SignUpResults(c.id, accounts) : SignUpResolve(c, r)
    \/ \E c \in BagToSet(authCalls), error \in Errors :
          InsertResolve(c, error)
    \/ \E id \in UserIds : LoginCall(id)
    \/ \E c \in BagToSet(authCalls), error \in Errors :
          LoginResolve(c, error)
    \/ LogoutCall
    \/ \E c \in BagToSet(authCalls), error \in Errors :
          LogoutResolve(c, error)

SpecAuth == InitAuth /\ [][NextAuth]_vars

(***************************************************************************)
(* Vocabulary of the properties.                                           *)
(***************************************************************************)
Elements(list) == {list[i] : i \in 1..Len(list)}

Count(list, x) == Cardinality({i \in 1..Len(list) : list[i] = x})

NoDuplicates(list) == \A x \in Elements(list) : Count(list, x) = 1

RECURSIVE Without(_, _)
Without(list, x) ==
    IF list = <<>> THEN <<>>
    ELSE IF Head(list) = x THEN Without(Tail(list), x)
    ELSE <<Head(list)>> \o Without(Tail(list), x)

Mutations == {"toggleFavorite", "updateSubscription"}

ToggleDone == last.op = "toggleFavorite" /\ last.outcome = "ok"

\* Nothing the store started is still in flight.
Settled == initPc = "done" /\ events = <<>> /\ fetches = {} /\ calls = EmptyBag

(***************************************************************************)
(* C1.  In every reachable state Profile is non-null only if Identity is   *)
(* non-null.                                                               *)
(***************************************************************************)
C1_ProfileOnlyWithIdentity == userProfile # NULL => currentUser # NULL

(***************************************************************************)
(* C2.  Once the cleanup has run, no continuation of the initial session   *)
(* request, of a profile fetch or of an event callback writes a state      *)
(* cell.                                                                   *)
(***************************************************************************)
C2_NoWriteAfterTeardown ==
    (~mounted /\ ~subscribed
       /\ last.op \in {"initializeAuth", "fetchUserProfile",
                       "onAuthStateChange"})
    => last.writes = {}

(***************************************************************************)
(* C3.  A toggleFavorite or updateSubscription whose remote write fails    *)
(* changes none of Identity, Session, Profile, Loading (neither when it is *)
(* called nor when the failure comes back), leaves the remote table as it  *)
(* was, and throws the remote error to its caller.                         *)
(***************************************************************************)
C3_FailedWriteLeavesState ==
    [][(last'.op \in Mutations
          /\ (last'.outcome = "call" \/ last'.response # NoError))
       => /\ UNCHANGED <<currentUser, userProfile, session, loading>>
          /\ UNCHANGED user_profiles
          /\ last'.thrown = last'.response]_vars

C3_Witness ==
    /\ last.op = "toggleFavorite"
    /\ last.response = "failed"
    /\ last.thrown = "failed"
    /\ userProfile = last.call.profile
    /\ currentUser = last.call.user

(***************************************************************************)
(* C4.  toggleFavorite and updateSubscription called while Identity or     *)
(* Profile is null issue no remote call and change no state cell and no    *)
(* remote row.                                                             *)
(***************************************************************************)
C4_NoOpWithoutIdentityOrProfile ==
    [][(callsLeft' # callsLeft /\ (currentUser = NULL \/ userProfile = NULL))
       => /\ calls' = calls
          /\ UNCHANGED <<currentUser, userProfile, session, loading>>
          /\ UNCHANGED user_profiles]_vars

C4_Witness ==
    /\ last.op \in Mutations
    /\ last.outcome = "noop"
    /\ currentUser # NULL
    /\ userProfile = NULL
    /\ calls = EmptyBag

(***************************************************************************)
(* C5.  A successful toggleFavorite(X) made with cached list F caches F    *)
(* without X when X is in F and F with X appended at the end otherwise,    *)
(* every other Profile field as it was, and the remote row it addresses    *)
(* holds the same list.                                                    *)
(***************************************************************************)
C5_Expected(F, X) == IF X \in Elements(F) THEN Without(F, X) ELSE F \o <<X>>

C5_ToggleResult ==
    ToggleDone =>
        LET F == last.call.profile.favorites
            X == last.call.arg
            row == user_profiles[last.call.user.id]
        IN  /\ userProfile =
                  [last.call.profile EXCEPT !.favorites = C5_Expected(F, X)]
            /\ row # NULL => row.favorites = Col(C5_Expected(F, X))
            /\ (F = <<"t1">> /\ X = "t1") => userProfile.favorites = <<>>
            /\ (F = <<"t1">> /\ X = "t2")
                   => userProfile.favorites = <<"t1", "t2">>

C5_Witness ==
    /\ ToggleDone
    /\ last.call.profile.favorites = <<"t1">>
    /\ last.call.arg = "t2"
    /\ userProfile.favorites = <<"t1", "t2">>

(***************************************************************************)
(* C6.  toggleFavorite(X) twice in a row, each awaited to success with     *)
(* nothing in between, leaves the cached favorites list equal to F.        *)
(***************************************************************************)
C6_TwiceRestoresList ==
    twice.stage = 4 => FavoritesOf(userProfile) = twice.before

\* C6 as amended: the list holds the same ids as F; it is F itself when X
\* was not in F, and F without X followed by X when X was in F.
C6_TwiceRestoresIds ==
    twice.stage = 4 =>
        LET F == twice.before
            X == twice.toolId
            G == FavoritesOf(userProfile)
        IN  /\ Elements(G) = Elements(F)
            /\ X \notin Elements(F) => G = F
            /\ X \in Elements(F) => G = Without(F, X) \o <<X>>

C6_Witness ==
    /\ twice.stage = 4
    /\ twice.before = <<"t1", "t2">>
    /\ twice.toolId = "t1"
    /\ userProfile.favorites = <<"t2", "t1">>

(***************************************************************************)
(* C7.  After a successful toggleFavorite the cached favorites list holds  *)
(* each id at most once, whatever list the profile fetch returned.         *)
(***************************************************************************)
C7_NoDuplicatesAfterToggle ==
    ToggleDone => NoDuplicates(FavoritesOf(userProfile))

\* C7 as amended: the toggled id occurs at most once, every other id as
\* often as in the list the call was made with; a list without duplicates
\* stays without duplicates.
C7_TogglePreservesUniqueness ==
    ToggleDone =>
        LET F == last.call.profile.favorites
            X == last.call.arg
            G == FavoritesOf(userProfile)
        IN  /\ Count(G, X) <= 1
            /\ \A id \in ToolIds \ {X} : Count(G, id) = Count(F, id)
            /\ NoDuplicates(F) => NoDuplicates(G)

C7_Witness ==
    /\ ToggleDone
    /\ NoDuplicates(last.call.profile.favorites)
    /\ Len(userProfile.favorites) = 2
    /\ NoDuplicates(userProfile.favorites)

(***************************************************************************)
(* C8.  Loading is written false only when no profile fetch started by     *)
(* initialization or by the most recent session-change event is still in   *)
(* flight.                                                                 *)
(***************************************************************************)
C8_LoadingFalseAfterFetches ==
    "loading" \in last.writes =>
        ~\E f \in fetches : f.origin = 0 \/ f.origin = evSeq

(***************************************************************************)
(* C9.  Loading is true whenever the initial session request or a profile  *)
(* fetch started by a session-change event is in flight.                   *)
(***************************************************************************)
C9_LoadingWhileInFlight ==
    (initPc = "getSession" \/ \E f \in fetches : f.origin > 0) => loading

(***************************************************************************)
(* C10.  When a session-change event was delivered before the initial      *)
(* session request resolved, then once everything in flight has resolved   *)
(* Session and Identity are the provider's current session and its         *)
(* identity, and Profile is null or that identity's row.                   *)
(***************************************************************************)
C10_RaceConverges ==
    (raced /\ mounted /\ Settled) =>
        /\ session = authSession
        /\ currentUser = UserOf(authSession)
        /\ currentUser = NULL => userProfile = NULL
        /\ (currentUser # NULL /\ userProfile # NULL)
               => userProfile.username = currentUser.id

(***************************************************************************)
(* C11.  Once toggleFavorite and updateSubscription calls, sequential or   *)
(* overlapping, have all completed (the last of them successfully) with no *)
(* profile fetch since, the cached favorites and isPaid are those of the   *)
(* remote row of the identity.                                             *)
(***************************************************************************)
C11_CacheEqualsRow ==
    (/\ last.op \in Mutations
     /\ last.outcome = "ok"
     /\ calls = EmptyBag
     /\ currentUser # NULL
     /\ user_profiles[currentUser.id] # NULL)
    => LET row == MapProfile(user_profiles[currentUser.id])
       IN  /\ userProfile.favorites = row.favorites
           /\ userProfile.isPaid = row.isPaid

(***************************************************************************)
(* C15.  Every failing outcome of the profile fetch (the no-rows error     *)
(* code, any other query error, a thrown exception, a success without a    *)
(* row) leaves Profile null and Loading false, and throws nothing to the   *)
(* initialization sequence or the callback that started it.                *)
(***************************************************************************)
FetchFailures == {"PGRST116", "OTHER", "throw", "empty"}

C15_FailedFetchClearsProfile ==
    (last.op = "fetchUserProfile" /\ last.outcome \in FetchFailures)
    => /\ userProfile = NULL
       /\ loading = FALSE
       /\ last.thrown = NoError

C15_Witness ==
    /\ last.op = "fetchUserProfile"
    /\ last.outcome = "PGRST116"
    /\ currentUser = User("u2")
    /\ userProfile = NULL
    /\ ~loading

(***************************************************************************)
(* C19.  Whenever Profile is non-null and nothing is in flight, the cached *)
(* Profile is the row of the current Identity, never the row of an         *)
(* identity that was signed in before.                                     *)
(***************************************************************************)
C19_ProfileOfCurrentIdentity ==
    (Settled /\ userProfile # NULL /\ currentUser # NULL)
    => userProfile.username = currentUser.id

(***************************************************************************)
(* C16.  From construction (Loading true), if the store is not torn down   *)
(* and every remote call resolves, Loading becomes false.                  *)
(***************************************************************************)
C16_LoadingEnds == <>(~loading \/ ~mounted)

C16_Witness ==
    /\ mounted
    /\ ~loading
    /\ last.op = "fetchUserProfile"
    /\ last.outcome = "throw"
    /\ initPc = "done"

(***************************************************************************)
(* C17.  When the initial session request resolves with an error while the *)
(* store is live, the initialization path sets Loading false, starts no    *)
(* profile fetch, writes none of Identity, Session, Profile, and these     *)
(* three are null when the path ends.                                      *)
(***************************************************************************)
C17_InitErrorLeavesNull ==
    (last.op = "initializeAuth" /\ last.response # NoError /\ mounted)
    => /\ ~loading
       /\ last.writes = {"loading"}
       /\ ~\E f \in fetches : f.origin = 0
       /\ currentUser = NULL
       /\ session = NULL
       /\ userProfile = NULL

\* C17 as amended: the path writes Loading false when the store is live
\* and nothing when it is torn down, starts no fetch and leaves Identity,
\* Session, Profile as they are: null when no callback has run before.
C17_InitErrorWritesLoadingOnly ==
    [][(last'.op = "initializeAuth" /\ last'.response # NoError)
       => /\ UNCHANGED <<currentUser, session, userProfile, fetches>>
          /\ mounted => ~loading'
          /\ ~mounted => UNCHANGED loading
          /\ initPc' = "done"
          /\ evSeq = 0 =>
                (currentUser' = NULL /\ session' = NULL
                    /\ userProfile' = NULL)]_vars

C17_Witness ==
    /\ last.op = "initializeAuth"
    /\ last.response = "failed"
    /\ mounted
    /\ ~loading
    /\ currentUser = User("u1")
    /\ session = SessionOf("u1")
    /\ fetches = {[origin |-> 1, userId |-> "u1"]}

(***************************************************************************)
(* C18.  A session-change event with a null session, delivered while the   *)
(* store is live, leaves Session, Identity, Profile null and Loading false *)
(* when its callback returns; one with an identity replaces Session and    *)
(* Identity by the event's and starts exactly one profile fetch, for that  *)
(* identity's id.                                                          *)
(***************************************************************************)
C18_EventCallback ==
    [][(last'.op = "onAuthStateChange" /\ mounted)
       => LET s == Head(events) IN
          IF s = NULL
          THEN /\ session' = NULL
               /\ currentUser' = NULL
               /\ userProfile' = NULL
               /\ ~loading'
               /\ fetches' = fetches
          ELSE /\ session' = s
               /\ currentUser' = s.user
               /\ Cardinality(fetches' \ fetches) = 1
               /\ fetches \subseteq fetches'
               /\ \A f \in fetches' \ fetches : f.userId = s.user.id]_vars

C18_Witness ==
    /\ last.op = "onAuthStateChange"
    /\ last.outcome = "fetch"
    /\ session = SessionOf("u2")
    /\ currentUser = User("u2")
    /\ \E f \in fetches : f.origin = evSeq /\ f.userId = "u2"
    /\ \E f \in fetches : f.userId = "u1"

(***************************************************************************)
(* C20.  Loading starts true and, once false, is false in every later      *)
(* state.                                                                  *)
(***************************************************************************)
C20_LoadingMonotone == [][~loading => ~loading']_vars

C20_Witness ==
    /\ ~loading
    /\ last.op = "onAuthStateChange"
    /\ last.outcome = "fetch"
    /\ fetches # {}

(***************************************************************************)
(* C12: signup, login and logout never write Identity, Session, Profile or *)
(* Loading themselves, whether they succeed or fail: a step of any of them *)
(* leaves the four cells as they are, and every step that changes one of   *)
(* the cells is a step of the initialization path, of the session-change   *)
(* callback or of the profile fetch these two await.                       *)
(***************************************************************************)
AuthOps == {"signup", "login", "logout"}

C12_AuthCallsWriteNoCell ==
    [][/\ last'.op \in AuthOps => UNCHANGED state
       /\ ~(UNCHANGED state) =>
             last'.op \in {"initializeAuth", "onAuthStateChange",
                           "fetchUserProfile"}]_vars

\* A login has succeeded while the cells still hold nobody: the provider
\* has u1's session, the store has not been told yet.
C12_Witness ==
    /\ last.op = "login"
    /\ last.outcome = "ok"
    /\ initPc = "done"
    /\ authSession = SessionOf("u1")
    /\ session = NULL
    /\ currentUser = NULL

(***************************************************************************)
(* C13: signup error outcomes.  If signUp fails, its error is thrown to    *)
(* the caller, no insert is issued and the table is untouched.  If signUp  *)
(* returned a new identity and the insert fails, the insert error is       *)
(* thrown, no further remote call is made, the identity stays registered   *)
(* and has no row; a profile fetch for a registered identity without a row *)
(* leaves Profile null and throws nothing.                                 *)
(***************************************************************************)
C13_SignupErrors ==
    [][/\ (last'.op = "signup" /\ last'.response # NoError) =>
             /\ last'.thrown = last'.response
             /\ authCalls' = authCalls (-) SetToBag({last'.call})
             /\ UNCHANGED <<user_profiles, accounts, authSession, events>>
             /\ last'.call.pc = "insert" =>
                   /\ last'.call.id \in accounts'
                   /\ user_profiles'[last'.call.id] = NULL
       /\ last'.op = "fetchUserProfile" =>
             \A f \in fetches \ fetches' :
                 (f.userId \in accounts /\ user_profiles[f.userId] = NULL)
                    => /\ userProfile' = NULL
                       /\ last'.thrown = NoError]_vars

\* u2 was registered by a signup whose insert failed, then signed in, and
\* the fetch of its profile has found no row.
C13_Witness ==
    /\ last.op = "fetchUserProfile"
    /\ last.outcome = "PGRST116"
    /\ "u2" \in accounts
    /\ user_profiles["u2"] = NULL
    /\ authCalls = EmptyBag
    /\ currentUser = User("u2")
    /\ userProfile = NULL
    /\ ~loading

(***************************************************************************)
(* C14: round trip.  When a profile fetch finds the row a signup inserted, *)
(* the cached Profile has favorites = [] and isPaid = false and carries    *)
(* the username, email, job and interests that were supplied, and the      *)
(* phone that was supplied, or '' when none was.                           *)
(***************************************************************************)
Given(profile) ==
    [username |-> profile.username,
     email |-> profile.email,
     phone |-> IF profile.phone = Absent THEN "" ELSE profile.phone[1],
     job |-> profile.job,
     interests |-> profile.interests,
     favorites |-> <<>>,
     isPaid |-> FALSE]

C14_RoundTrip ==
    [][(last'.op = "fetchUserProfile" /\ last'.outcome = "row") =>
          \A f \in fetches \ fetches' :
              supplied[f.userId] # NULL =>
                  userProfile' = Given(supplied[f.userId])]_vars

\* u2 signed up with a phone and an interest, and the fetch of its row has
\* cached them.
C14_Witness ==
    /\ last.op = "fetchUserProfile"
    /\ last.outcome = "row"
    /\ currentUser = User("u2")
    /\ supplied["u2"] # NULL
    /\ userProfile # NULL
    /\ userProfile.phone = "555"
    /\ userProfile.interests = <<"x">>
    /\ userProfile.favorites = <<>>
    /\ userProfile.isPaid = FALSE

====
